---- MODULE Spec2Model ----
(***************************************************************************)
(* The L&D job board: the ingestion run of scraper.py (scrape_and_store)   *)
(* over the SQLAlchemy session of database.py, the broad scraper of        *)
(* scrape_training.py, and the read paths of app.py and web.py.            *)
(*                                                                         *)
(* Text is modelled as a sequence of one-character strings, so that        *)
(* lower(), slicing and the substring test `k in s` are computed.          *)
(* None and NaN (pandas' missing value) are the one-element sequences      *)
(* None and NaN, which no text equals.                                     *)
(***************************************************************************)
EXTENDS Integers, Sequences, FiniteSets, TLC

\* ------------------------------------------------------------------------
\* Python values
\* ------------------------------------------------------------------------
None == <<"<None>">>

NaN == <<"<NaN>">>

AttributeError == <<"<AttributeError>">>

\* bool(v): None and "" are falsy; NaN (a float) and every other text are truthy
\* Python's True and False as returned values
True == <<"<True>">>

False == <<"<False>">>

Bool(b) == IF b THEN True ELSE False

Truthy(v) == v # None /\ v # <<>>

\* pd.isna(v)
isna(v) == v = None \/ v = NaN

IsStr(v) == v # None /\ v # NaN

\* str(v)
Str(v) ==
  IF v = NaN THEN <<"n","a","n">>
  ELSE IF v = None THEN <<"N","o","n","e">>
  ELSE v

UpperCase == <<"A","B","C","D","E","F","G","H","I","J","K","L","M","N","O","P","Q","R","S","T","U","V","W","X","Y","Z">>

LowerCase == <<"a","b","c","d","e","f","g","h","i","j","k","l","m","n","o","p","q","r","s","t","u","v","w","x","y","z">>

LowerChar(c) ==
  IF \E i \in 1..26 : UpperCase[i] = c
  THEN LowerCase[CHOOSE i \in 1..26 : UpperCase[i] = c]
  ELSE c

\* s.lower()
Lower(s) == [i \in 1..Len(s) |-> LowerChar(s[i])]

\* k in s
Contains(s, k) == \E i \in 0..(Len(s) - Len(k)) : SubSeq(s, i + 1, i + Len(k)) = k

\* any(k in s for k in keywords)
AnyIn(keywords, s) == \E n \in 1..Len(keywords) : Contains(s, keywords[n])

\* s[:n]
Slice(s, n) == SubSeq(s, 1, IF Len(s) < n THEN Len(s) ELSE n)

\* ------------------------------------------------------------------------
\* scraper.py: the classifiers
\* ------------------------------------------------------------------------
ld_keywords ==
  << <<"t","r","a","i","n","i","n","g">>,
     <<"t","r","a","i","n","e","r">>,
     <<"l","e","a","r","n","i","n","g">>,
     <<"l","&","d">>,
     <<"i","n","s","t","r","u","c","t","i","o","n","a","l">>,
     <<"c","u","r","r","i","c","u","l","u","m">>,
     <<"e","l","e","a","r","n","i","n","g">>,
     <<"e","-","l","e","a","r","n","i","n","g">>,
     <<"c","o","u","r","s","e","w","a","r","e">>,
     <<"e","n","a","b","l","e","m","e","n","t">>,
     <<"t","a","l","e","n","t"," ","d","e","v","e","l","o","p","m","e","n","t">>,
     <<"o","r","g","a","n","i","z","a","t","i","o","n","a","l"," ","d","e","v","e","l","o","p","m","e","n","t">>,
     <<"p","r","o","f","e","s","s","i","o","n","a","l"," ","d","e","v","e","l","o","p","m","e","n","t">>,
     <<"l","e","a","d","e","r","s","h","i","p"," ","d","e","v","e","l","o","p","m","e","n","t">>,
     <<"e","m","p","l","o","y","e","e"," ","d","e","v","e","l","o","p","m","e","n","t">>,
     <<"f","a","c","i","l","i","t","a","t","o","r">>,
     <<"f","a","c","i","l","i","t","a","t","i","o","n">>,
     <<"c","o","a","c","h">>,
     <<"c","o","a","c","h","i","n","g">>,
     <<"o","n","b","o","a","r","d","i","n","g">>,
     <<"l","m","s">>,
     <<"l","e","a","r","n","i","n","g"," ","m","a","n","a","g","e","m","e","n","t">>,
     <<"c","o","r","p","o","r","a","t","e"," ","e","d","u","c","a","t","i","o","n">>,
     <<"e","d","u","c","a","t","i","o","n"," ","m","a","n","a","g","e","r">>,
     <<"e","d","u","c","a","t","i","o","n"," ","d","i","r","e","c","t","o","r">> >>

ops_keywords ==
  << <<"d","e","a","l"," ","d","e","s","k">>,
     <<"r","e","v","o","p","s">>,
     <<"r","e","v","e","n","u","e"," ","o","p","e","r","a","t","i","o","n","s">>,
     <<"s","a","l","e","s"," ","o","p","e","r","a","t","i","o","n","s">>,
     <<"c","r","m"," ","a","d","m","i","n">>,
     <<"s","a","l","e","s","f","o","r","c","e">>,
     <<"q","u","o","t","a">>,
     <<"p","i","p","e","l","i","n","e">>,
     <<"f","o","r","e","c","a","s","t","i","n","g">> >>

learning_keywords ==
  << <<"t","r","a","i","n","i","n","g">>,
     <<"l","e","a","r","n","i","n","g">>,
     <<"f","a","c","i","l","i","t","a","t","i","o","n">>,
     <<"c","o","a","c","h","i","n","g">>,
     <<"o","n","b","o","a","r","d","i","n","g">>,
     <<"c","u","r","r","i","c","u","l","u","m">>,
     <<"c","o","n","t","e","n","t">>,
     <<"i","n","s","t","r","u","c","t","i","o","n","a","l">>,
     <<"d","e","v","e","l","o","p","m","e","n","t">> >>

level_keywords ==
  << <<"m","a","n","a","g","e","r">>,
     <<"d","i","r","e","c","t","o","r">>,
     <<"v","p">>,
     <<"c","h","i","e","f">>,
     <<"h","e","a","d">>,
     <<"l","e","a","d">> >>

s_enablement == <<"e","n","a","b","l","e","m","e","n","t">>

ManagementPlus == <<"M","a","n","a","g","e","m","e","n","t","+">>

IndividualContributor == <<"I","n","d","i","v","i","d","u","a","l"," ","C","o","n","t","r","i","b","u","t","o","r">>

\* is_valid_ld_role(title): "True", "False", or the AttributeError of
\* title.lower() on a title that is truthy and not text (NaN)
is_valid_ld_role(title) ==
  IF ~Truthy(title) THEN "False"
  ELSE IF ~IsStr(title) THEN "AttributeError"
  ELSE IF AnyIn(ld_keywords, Lower(title)) THEN "True"
  ELSE "False"

\* the description consulted before the ops/admin keywords of the title
is_valid_enablement_role_description_first(title, description) ==
  LET title_lower == IF Truthy(title) THEN Lower(Str(title)) ELSE <<>>
  IN  IF Truthy(description) /\ AnyIn(learning_keywords, Lower(Str(description))) THEN TRUE
      ELSE IF AnyIn(ops_keywords, title_lower) THEN FALSE
      ELSE IF AnyIn(learning_keywords, title_lower) THEN TRUE
      ELSE FALSE

is_valid_enablement_role(title, description) ==
  LET title_lower == IF Truthy(title) THEN Lower(Str(title)) ELSE <<>>
  IN  IF AnyIn(ops_keywords, title_lower) THEN FALSE
      ELSE IF AnyIn(learning_keywords, title_lower) THEN TRUE
      ELSE IF Truthy(description) /\ AnyIn(learning_keywords, Lower(Str(description))) THEN TRUE
      ELSE FALSE

\* the keywords looked up in the title as written, without lower()
get_level_cased(title) ==
  IF ~Truthy(title) THEN IndividualContributor
  ELSE IF ~IsStr(title) THEN AttributeError
  ELSE IF AnyIn(level_keywords, title) THEN ManagementPlus
  ELSE IndividualContributor

\* get_level(title): a level, or AttributeError for a truthy non-text title
get_level(title) ==
  IF ~Truthy(title) THEN IndividualContributor
  ELSE IF ~IsStr(title) THEN AttributeError
  ELSE IF AnyIn(level_keywords, Lower(title)) THEN ManagementPlus
  ELSE IndividualContributor

\* ------------------------------------------------------------------------
\* scraper.py: get_salary.  Amounts are naturals; NoAmount is pandas' NaN.
\* ------------------------------------------------------------------------
NoAmount == 0 - 1

Digits == <<"0","1","2","3","4","5","6","7","8","9">>

RECURSIVE DecimalOf(_)
DecimalOf(n) == IF n < 10 THEN <<Digits[n + 1]>> ELSE DecimalOf(n \div 10) \o <<Digits[(n % 10) + 1]>>

\* the thousands cut off instead of rounded
RoundedThousands_floor(amt) == amt \div 1000

\* f"{amt/1000:.0f}": round half to even
RoundedThousands(amt) ==
  LET q == amt \div 1000
      r == amt % 1000
  IN  IF r < 500 THEN q
      ELSE IF r > 500 THEN q + 1
      ELSE IF q % 2 = 0 THEN q ELSE q + 1

format_amount(amt) ==
  IF amt = NoAmount THEN None
  ELSE IF amt >= 1000 THEN <<"$">> \o DecimalOf(RoundedThousands(amt)) \o <<"K">>
  ELSE <<"$">> \o DecimalOf(amt)

get_salary(row) ==
  LET min_str == format_amount(row.min_amount)
      max_str == format_amount(row.max_amount)
      base == IF min_str # None /\ max_str # None THEN min_str \o <<" ","-"," ">> \o max_str
              ELSE IF min_str # None THEN min_str \o <<"+">>
              ELSE <<"U","p"," ","t","o"," ">> \o max_str
      interval_str == Lower(Str(row.interval))
      suffix == IF ~(Truthy(row.interval) /\ ~isna(row.interval)) THEN <<>>
                ELSE IF Contains(interval_str, <<"y","e","a","r">>) THEN <<"/","y","r">>
                ELSE IF Contains(interval_str, <<"h","o","u","r">>) THEN <<"/","h","r">>
                ELSE IF Contains(interval_str, <<"m","o","n","t","h">>) THEN <<"/","m","o">>
                ELSE <<>>
  IN  IF row.min_amount = NoAmount /\ row.max_amount = NoAmount THEN None
      ELSE base \o suffix

\* ------------------------------------------------------------------------
\* Bounds and data of the model
\* ------------------------------------------------------------------------
\* len(SEARCH_TERMS) and len(LOCATIONS); the run visits NumTerms * NumLocations pairs
NumTerms == 2

NumLocations == 2

\* runs of one replayed fetch plan (SpecRerun)
MaxRuns == 2

\* database.py: String(2000) for job_url, String(500) for title, company, location
JobUrlMax == 2000

TextMax == 500

t_CorporateTrainer == <<"C","o","r","p","o","r","a","t","e"," ","T","r","a","i","n","e","r">>

t_DealDesk == <<"D","e","a","l"," ","D","e","s","k"," ","E","n","a","b","l","e","m","e","n","t"," ","M","a","n","a","g","e","r">>

t_InstrDesign == <<"I","n","s","t","r","u","c","t","i","o","n","a","l"," ","D","e","s","i","g","n"," ","M","a","n","a","g","e","r">>

t_SoftwareDev == <<"S","o","f","t","w","a","r","e"," ","D","e","v","e","l","o","p","e","r">>

t_SalesEnablement == <<"S","a","l","e","s"," ","E","n","a","b","l","e","m","e","n","t"," ","L","e","a","d">>

d_Onboarding == <<"B","u","i","l","d","s"," ","o","n","b","o","a","r","d","i","n","g"," ","c","o","n","t","e","n","t">>

d_Quota == <<"O","w","n","s"," ","t","h","e"," ","q","u","o","t","a"," ","p","l","a","n">>

l_Remote == <<"R","e","m","o","t","e">>

l_Orlando == <<"O","r","l","a","n","d","o",","," ","F","L">>

l_Tampa == <<"T","a","m","p","a",","," ","F","L">>

c_Globex == <<"G","l","o","b","e","x">>

c_Acme == <<"A","c","m","e">>

u1 == <<"j","/","1">>

u2 == <<"j","/","2">>

u3 == <<"j","/","3">>

\* a url of JobUrlMax + 1 characters
uLong == [i \in 1..(JobUrlMax + 1) |-> IF i <= JobUrlMax THEN "a" ELSE "x"]

\* a title of TextMax + 1 characters: "Corporate Trainer", blanks, and "lead" across the
\* TextMax-th character
tLong ==
  [i \in 1..(TextMax + 1) |->
     IF i <= Len(t_CorporateTrainer) THEN t_CorporateTrainer[i]
     ELSE IF i < TextMax - 2 THEN " "
     ELSE <<"l","e","a","d">>[i - (TextMax - 3)]]

Row(url, title, description, location, min_amount) ==
  [job_url |-> url, title |-> title, description |-> description, company |-> c_Acme,
   location |-> location, min_amount |-> min_amount, max_amount |-> NoAmount, interval |-> None]

rA == Row(u1, t_CorporateTrainer, None, l_Orlando, NoAmount)

rB == Row(u2, t_DealDesk, d_Onboarding, l_Orlando, NoAmount)

rC == Row(u3, t_InstrDesign, None, l_Remote, 80000)

rN == Row(u3, NaN, None, l_Orlando, NoAmount)

rE == Row(<<>>, t_CorporateTrainer, None, l_Orlando, NoAmount)

rA2 == Row(u1, t_SoftwareDev, None, l_Remote, NoAmount)

rNone == Row(u2, None, d_Onboarding, l_Remote, NoAmount)

rS == Row(u2, t_SalesEnablement, d_Onboarding, l_Remote, NoAmount)

rQ == Row(u3, t_SalesEnablement, d_Quota, l_Remote, NoAmount)

rL == Row(uLong, t_CorporateTrainer, None, l_Orlando, NoAmount)

rT == [Row(u2, t_SalesEnablement, d_Onboarding, l_Tampa, NoAmount) EXCEPT !.company = c_Globex]

rLT == Row(u2, tLong, None, l_Remote, NoAmount)

dfABC == <<rA, rB, rC>>

dfNaN == <<rA, rN, rS, rE>>

dfMix == <<rE, rA2, rNone, rQ, rL>>

dfLong == <<rA, rLT>>

\* scrape_jobs for one pair raises, returns None or an empty frame ("empty"), or returns
\* one of the frames, named here
FrameNames == {"dfABC", "dfNaN", "dfMix"}

\* a frame that only a fetch plan names
PlanFrameNames == {"dfLong"}

Frame(name) ==
  IF name = "dfABC" THEN dfABC
  ELSE IF name = "dfNaN" THEN dfNaN
  ELSE IF name = "dfMix" THEN dfMix
  ELSE IF name = "dfLong" THEN dfLong
  ELSE <<>>

FetchResults == {"raise", "empty"} \cup FrameNames

NumPairs == NumTerms * NumLocations

\* the fetch plans replayed by SpecRerun
RerunResults == FrameNames

Plans == [1..NumPairs -> RerunResults]

\* the fetch plans with a long title: one pair returns dfLong, the others dfABC
LongTitlePlans ==
  {[i \in 1..NumPairs |-> IF i = k THEN "dfLong" ELSE "dfABC"] : k \in 1..NumPairs}

\* ------------------------------------------------------------------------
\* State
\* ------------------------------------------------------------------------
VARIABLES
  configured,               \* database.py: DATABASE_URL is set (engine and SessionLocal exist)
  job_attrs,                \* database.py: the attributes of the mapped class Job
  store,                    \* the committed rows of table jobs
  sess,                     \* the run's session: "none", "active", or "inactive" after a failed flush
  txn,                      \* rows inserted by the open transaction, not yet committed
  pending,                  \* session.add()ed objects not yet flushed
  pc,                       \* position of scrape_and_store
  ti, li,                   \* indexes of search_term and location in the two loops
  jobs_df, idx,             \* the rows of the current pair and the row being processed
  current_search,
  total_found, total_new, total_skipped_duplicate, total_skipped_not_ld, total_skipped_bouncer,
  call,                     \* a call of a classifier on its own: [fn, arg, ret]
  utcnow,                   \* the time, in UTC, counted in thirds of a day
  utcoffset,                \* the server's time zone: local time is utcnow + utcoffset
  log,                      \* the run's calls of scrape_jobs, in order
  slept,                    \* time.sleep(1) ran after the last call of scrape_jobs
  start,                    \* the committed rows when the run started
  no_url,                   \* the run's candidates skipped for their empty url (line 247)
  row_raised,               \* processing a candidate raised in this run
  plan, history,            \* SpecRerun: the fetch plan every run replays, and the runs finished so far
  cache,                    \* app.py: the memo of st.cache_data(ttl=300) around load_jobs
  resp,                     \* the last response of a view: main() of app.py, get_jobs or get_stats of web.py
  t_pc, t_ti, t_li,         \* scrape_training.py: position of scrape_all_jobs
  t_log, t_slept, all_jobs  \* its calls of scrape_jobs, the sleep after the last, and the frames collected

runVars == <<sess, txn, pending, pc, ti, li, jobs_df, idx, current_search, total_found, total_new,
             total_skipped_duplicate, total_skipped_not_ld, total_skipped_bouncer, log, slept, start,
             no_url, row_raised>>

viewVars == <<cache, resp>>

trainVars == <<t_pc, t_ti, t_li, t_log, t_slept, all_jobs>>

clockVars == <<utcnow, utcoffset>>

vars == <<call, clockVars, configured, job_attrs, store, runVars, plan, history, viewVars, trainVars>>

\* ------------------------------------------------------------------------
\* The views' idle values; a run is started between visits of the views
\* ------------------------------------------------------------------------
NoCache == [valid |-> FALSE, error |-> FALSE, df |-> {}]

\* op: "main", "get_jobs" or "get_stats"; raised: an exception reached the caller;
\* error: st.error was shown; read: the store was read; jobs: the urls of the rows returned
\* the parameters of get_jobs, none set
NoFilters == [search |-> <<>>, level |-> <<>>, location |-> <<>>]

\* the sidebar of the jobs page, nothing selected
NoSelection == [levels |-> {}, locations |-> {}, search |-> <<>>]

NoResp == [op |-> "none", page |-> "none", raised |-> FALSE, error |-> FALSE, read |-> FALSE,
           jobs |-> {}, total_jobs |-> 0, no_jobs_warning |-> FALSE,
           filters |-> NoFilters, selection |-> NoSelection, new_today |-> 0]

Quiet == cache = NoCache /\ resp = NoResp

\* ------------------------------------------------------------------------
\* database.py: the Job model, the session and job_exists
\* ------------------------------------------------------------------------
\* the columns class Job declares
JobColumns == {"id", "title", "company", "location", "date_posted", "job_url", "description",
               "level", "category", "created_at"}

\* the keyword arguments scrape_and_store passes to Job(...)
JobKwargs == {"title", "company", "salary", "location", "date_posted", "job_url", "description",
              "level", "created_at"}

\* Job(**kwargs): the declarative constructor raises TypeError for a keyword
\* that is not an attribute of the class
JobRaises(kwargs) == ~(kwargs \subseteq job_attrs)

Urls(rows) == {r.job_url : r \in rows}

\* the column declared without unique=True
UniqueViolation_unconstrained(table, job) == FALSE

\* job_url is unique=True: an INSERT of an existing job_url is refused
UniqueViolation(table, job) == job.job_url \in Urls(table)

\* an INSERT that stores nothing
InsertRow_lost(table, job) == table

\* INSERT of one flushed object; the primary key id is the next free integer
InsertRow(table, job) == table \cup {[job EXCEPT !.id = Cardinality(table) + 1]}

\* the flush of the pending objects in order; ok is FALSE on IntegrityError
RECURSIVE FlushFrom(_, _)
FlushFrom(t, p) ==
  IF p = <<>> THEN [ok |-> TRUE, txn |-> t]
  ELSE IF UniqueViolation(store \cup t, Head(p)) THEN [ok |-> FALSE, txn |-> {}]
  ELSE FlushFrom(InsertRow(store \cup t, Head(p)) \ store, Tail(p))

\* a connection in autocommit: what was flushed before the failure stays
RolledBack_autocommit(committed, S) == committed \cup S.txn

\* get_session, lines 66-68: session.rollback() discards what the transaction inserted;
\* the committed rows stay as they were
RolledBack(committed, S) == committed

\* a session as a value: [sess, txn, pending]
Flush(S) ==
  LET f == FlushFrom(S.txn, S.pending)
  IN  IF f.ok THEN [ok |-> TRUE, S |-> [sess |-> "active", txn |-> f.txn, pending |-> <<>>]]
      ELSE [ok |-> FALSE, S |-> [sess |-> "inactive", txn |-> {}, pending |-> <<>>]]

\* job_exists(session, job_url): the query autoflushes, then looks the url up among the
\* rows the transaction sees.  raised: PendingRollbackError on an inactive session, or the
\* IntegrityError of the flush.
job_exists(S, job_url) ==
  IF S.sess = "inactive" THEN [raised |-> TRUE, found |-> FALSE, S |-> S]
  ELSE LET f == Flush(S)
       IN  IF ~f.ok THEN [raised |-> TRUE, found |-> FALSE, S |-> f.S]
           ELSE [raised |-> FALSE, found |-> job_url \in Urls(store \cup f.S.txn), S |-> f.S]

\* ------------------------------------------------------------------------
\* scraper.py: the body of the row loop of scrape_and_store
\* ------------------------------------------------------------------------
\* Job(...) for a row, built at the time created_at (category is never passed)
JobAt(row, created_at) ==
  [id |-> 0,
   title |-> IF Truthy(row.title) THEN Slice(Str(row.title), TextMax) ELSE None,
   company |-> IF Truthy(row.company) THEN Slice(Str(row.company), TextMax) ELSE None,
   salary |-> get_salary(row),
   location |-> IF Truthy(row.location) THEN Slice(Str(row.location), TextMax) ELSE None,
   job_url |-> Slice(Str(row.job_url), JobUrlMax),
   description |-> IF Truthy(row.description) THEN Str(row.description) ELSE None,
   level |-> get_level(row.title),
   category |-> None,
   created_at |-> created_at]

\* the Job built for a row that passed the filters: created_at=datetime.utcnow()
NewJob(row) == JobAt(row, utcnow)

\* the gate tested on the title as written, without lower()
HasEnablement_cased(title) == Truthy(title) /\ Contains(Str(title), s_enablement)

\* line 261: the title takes the bouncer's gate
HasEnablement(title) == Truthy(title) /\ Contains(Lower(Str(title)), s_enablement)

\* outcome of one row: "nourl", "dup", "notld", "bouncer", "new", or "raise" for an
\* exception that leaves the row loop; S is the session afterwards
\* a row without url counted as not L&D
process_row_urlless(S, row) ==
  IF ~Truthy(row.job_url) THEN [outcome |-> "notld", S |-> S]
  ELSE LET e == job_exists(S, row.job_url)
       IN  IF e.raised THEN [outcome |-> "raise", S |-> e.S]
           ELSE IF e.found THEN [outcome |-> "dup", S |-> e.S]
           ELSE IF is_valid_ld_role(row.title) = "AttributeError" THEN [outcome |-> "raise", S |-> e.S]
           ELSE IF is_valid_ld_role(row.title) = "False" THEN [outcome |-> "notld", S |-> e.S]
           ELSE IF HasEnablement(row.title) /\ ~is_valid_enablement_role(row.title, row.description)
                THEN [outcome |-> "bouncer", S |-> e.S]
           ELSE IF JobRaises(JobKwargs) THEN [outcome |-> "raise", S |-> e.S]
           ELSE [outcome |-> "new", S |-> [e.S EXCEPT !.pending = Append(@, NewJob(row))]]

process_row(S, row) ==
  IF ~Truthy(row.job_url) THEN [outcome |-> "nourl", S |-> S]
  ELSE LET e == job_exists(S, row.job_url)
       IN  IF e.raised THEN [outcome |-> "raise", S |-> e.S]
           ELSE IF e.found THEN [outcome |-> "dup", S |-> e.S]
           ELSE IF is_valid_ld_role(row.title) = "AttributeError" THEN [outcome |-> "raise", S |-> e.S]
           ELSE IF is_valid_ld_role(row.title) = "False" THEN [outcome |-> "notld", S |-> e.S]
           ELSE IF HasEnablement(row.title) /\ ~is_valid_enablement_role(row.title, row.description)
                THEN [outcome |-> "bouncer", S |-> e.S]
           ELSE IF JobRaises(JobKwargs) THEN [outcome |-> "raise", S |-> e.S]
           ELSE [outcome |-> "new", S |-> [e.S EXCEPT !.pending = Append(@, NewJob(row))]]

\* ------------------------------------------------------------------------
\* scraper.py: scrape_and_store
\* ------------------------------------------------------------------------
Session == [sess |-> sess, txn |-> txn, pending |-> pending]

FetchEvent == [term |-> ti, loc |-> li]

\* the next iteration of `for location` / `for search_term`, or the commit after the loops
NextPair ==
  IF li < NumLocations THEN ti' = ti /\ li' = li + 1 /\ pc' = "fetch"
  ELSE IF ti < NumTerms THEN ti' = ti + 1 /\ li' = 1 /\ pc' = "fetch"
  ELSE ti' = ti /\ li' = li /\ pc' = "commit"

\* the end of a run, for the replay of a plan
RunEnds(raised) ==
  IF plan = <<>> THEN UNCHANGED history
  ELSE history' = Append(history, [raised |-> raised, count |-> Cardinality(store'),
                                   new |-> total_new, duplicate |-> total_skipped_duplicate])

\* an except clause that gives the run up and goes to the commit
OnError_abort == pc' = "commit" /\ UNCHANGED <<ti, li>>

\* lines 290-292: the except clause of a pair prints the error and continues with the next pair
OnError == NextPair

\* lines 192-216: init_db(), the counters, and get_session() opening the session
\* (RuntimeError when the database is not configured)
StartRun ==
  /\ pc = "idle" /\ t_pc = "idle" /\ Quiet
  /\ plan = <<>> \/ Len(history) < MaxRuns
  /\ total_found' = 0 /\ total_new' = 0 /\ total_skipped_duplicate' = 0
  /\ total_skipped_not_ld' = 0 /\ total_skipped_bouncer' = 0 /\ current_search' = 0
  /\ log' = <<>> /\ slept' = FALSE /\ start' = store /\ no_url' = 0 /\ row_raised' = FALSE
  /\ jobs_df' = "empty" /\ idx' = 0 /\ txn' = {} /\ pending' = <<>>
  /\ ti' = 1 /\ li' = 1
  /\ IF configured
     THEN sess' = "active" /\ pc' = "fetch" /\ UNCHANGED <<store, history>>
     ELSE /\ sess' = "none" /\ pc' = "failed"
          /\ store' = store /\ RunEnds(TRUE)
  /\ UNCHANGED <<call, clockVars, configured, job_attrs, plan, viewVars, trainVars>>

\* lines 219-238 and 290-292: one call of scrape_jobs for the pair (ti, li)
Fetch ==
  /\ pc = "fetch"
  /\ current_search' = current_search + 1
  /\ log' = Append(log, FetchEvent) /\ slept' = FALSE
  /\ \E r \in (IF plan = <<>> THEN FetchResults ELSE {plan[(ti - 1) * NumLocations + li]}) :
       IF r \in FrameNames \cup PlanFrameNames
       THEN /\ jobs_df' = r /\ idx' = 1
            /\ total_found' = total_found + Len(Frame(r))
            /\ pc' = "rows"
            /\ UNCHANGED <<ti, li>>
       ELSE /\ jobs_df' = (IF r = "empty" THEN "empty" ELSE jobs_df)
            /\ IF r = "raise" THEN OnError ELSE NextPair
            /\ UNCHANGED <<idx, total_found>>
  /\ UNCHANGED <<call, clockVars, configured, job_attrs, store, sess, txn, pending, total_new, total_skipped_duplicate,
                 total_skipped_not_ld, total_skipped_bouncer, start, no_url, row_raised, plan, history, viewVars, trainVars>>

\* lines 241-292: one iteration of the row loop; an exception goes to the except clause of
\* the pair, whose `continue` takes the next pair
ProcessRow ==
  /\ pc = "rows"
  /\ LET p == process_row(Session, Frame(jobs_df)[idx])
     IN  /\ sess' = p.S.sess /\ txn' = p.S.txn /\ pending' = p.S.pending
         /\ total_skipped_duplicate' = total_skipped_duplicate + (IF p.outcome = "dup" THEN 1 ELSE 0)
         /\ total_skipped_not_ld' = total_skipped_not_ld + (IF p.outcome = "notld" THEN 1 ELSE 0)
         /\ total_skipped_bouncer' = total_skipped_bouncer + (IF p.outcome = "bouncer" THEN 1 ELSE 0)
         /\ total_new' = total_new + (IF p.outcome = "new" THEN 1 ELSE 0)
         /\ no_url' = no_url + (IF ~Truthy(Frame(jobs_df)[idx].job_url) THEN 1 ELSE 0)
         /\ row_raised' = (row_raised \/ p.outcome = "raise")
         /\ IF p.outcome = "raise" THEN OnError /\ UNCHANGED idx
            ELSE IF idx < Len(Frame(jobs_df)) THEN idx' = idx + 1 /\ UNCHANGED <<pc, ti, li>>
            ELSE pc' = "sleep" /\ UNCHANGED <<idx, ti, li>>
  /\ UNCHANGED <<call, clockVars, configured, job_attrs, store, jobs_df, current_search, total_found, log, slept,
                 start, plan, history, viewVars, trainVars>>

\* lines 294-295: time.sleep(1) after a pair whose rows were all processed
Sleep ==
  /\ pc = "sleep"
  /\ slept' = TRUE
  /\ NextPair
  /\ UNCHANGED <<call, clockVars, configured, job_attrs, store, sess, txn, pending, jobs_df, idx, current_search,
                 total_found, total_new, total_skipped_duplicate, total_skipped_not_ld,
                 total_skipped_bouncer, log, start, no_url, row_raised, plan, history, viewVars, trainVars>>

\* line 298 and get_session (database.py 56-70): session.commit() flushes and commits;
\* an exception (inactive session, IntegrityError of the flush, or a failing COMMIT)
\* is met by rollback(), re-raised, and the session closed
Commit ==
  /\ pc = "commit"
  /\ \E dbOk \in BOOLEAN :
       LET f == Flush(Session)
       IN  IF sess = "active" /\ f.ok /\ dbOk
           THEN /\ store' = store \cup f.S.txn
                /\ sess' = "active" /\ pc' = "summary"
                /\ UNCHANGED history
           ELSE /\ store' = RolledBack(store, f.S)
                /\ sess' = "none" /\ pc' = "failed"
                /\ RunEnds(TRUE)
  /\ txn' = {} /\ pending' = <<>>
  /\ UNCHANGED <<call, clockVars, configured, job_attrs, ti, li, jobs_df, idx, current_search, total_found, total_new,
                 total_skipped_duplicate, total_skipped_not_ld, total_skipped_bouncer, log, slept,
                 start, no_url, row_raised, plan, viewVars, trainVars>>

\* get_session's own commit of the now empty transaction and close(), then lines 300-310:
\* the summary of the five counters
Summary ==
  /\ pc = "summary"
  /\ sess' = "none" /\ pc' = "done"
  /\ store' = store
  /\ RunEnds(FALSE)
  /\ UNCHANGED <<call, clockVars, configured, job_attrs, txn, pending, ti, li, jobs_df, idx, current_search,
                 total_found, total_new, total_skipped_duplicate, total_skipped_not_ld,
                 total_skipped_bouncer, log, slept, start, no_url, row_raised, plan, viewVars, trainVars>>

\* the process of the run ends; its locals are gone
Exit ==
  /\ pc \in {"done", "failed"}
  /\ pc' = "idle"
  /\ total_found' = 0 /\ total_new' = 0 /\ total_skipped_duplicate' = 0
  /\ total_skipped_not_ld' = 0 /\ total_skipped_bouncer' = 0 /\ current_search' = 0
  /\ log' = <<>> /\ slept' = FALSE /\ start' = {} /\ jobs_df' = "empty" /\ idx' = 0
  /\ no_url' = 0 /\ row_raised' = FALSE
  /\ ti' = 1 /\ li' = 1
  /\ UNCHANGED <<call, clockVars, configured, job_attrs, store, sess, txn, pending, plan, history,
                 viewVars, trainVars>>

\* ------------------------------------------------------------------------
\* scrape_training.py: scrape_all_jobs
\* ------------------------------------------------------------------------
TFetchEvent == [term |-> t_ti, loc |-> t_li]

TNextPair ==
  IF t_li < NumLocations THEN t_ti' = t_ti /\ t_li' = t_li + 1 /\ t_pc' = "fetch"
  ELSE IF t_ti < NumTerms THEN t_ti' = t_ti + 1 /\ t_li' = 1 /\ t_pc' = "fetch"
  ELSE t_ti' = t_ti /\ t_li' = t_li /\ t_pc' = "done"

\* lines 55-57
TStart ==
  /\ t_pc = "idle" /\ pc = "idle" /\ Quiet
  /\ t_pc' = "fetch" /\ t_ti' = 1 /\ t_li' = 1 /\ t_log' = <<>> /\ t_slept' = FALSE /\ all_jobs' = <<>>
  /\ UNCHANGED <<call, clockVars, configured, job_attrs, store, runVars, plan, history, viewVars>>

\* lines 61-82: one call of scrape_jobs; an exception skips the sleep (`continue`)
TFetch ==
  /\ t_pc = "fetch"
  /\ t_log' = Append(t_log, TFetchEvent) /\ t_slept' = FALSE
  /\ \E r \in {"raise", "empty", "dfABC"} :
       IF r = "raise" THEN TNextPair /\ UNCHANGED all_jobs
       ELSE /\ all_jobs' = (IF r = "empty" THEN all_jobs ELSE Append(all_jobs, r))
            /\ t_pc' = "sleep" /\ UNCHANGED <<t_ti, t_li>>
  /\ UNCHANGED <<call, clockVars, configured, job_attrs, store, runVars, plan, history, viewVars>>

\* lines 84-85
TSleep ==
  /\ t_pc = "sleep"
  /\ t_slept' = TRUE
  /\ TNextPair
  /\ UNCHANGED <<call, clockVars, configured, job_attrs, store, runVars, plan, history, viewVars,
                 t_log, all_jobs>>

\* lines 87-90: the frames are returned and the process ends
TReturn ==
  /\ t_pc = "done"
  /\ t_pc' = "idle" /\ t_ti' = 1 /\ t_li' = 1 /\ t_log' = <<>> /\ t_slept' = FALSE /\ all_jobs' = <<>>
  /\ UNCHANGED <<call, clockVars, configured, job_attrs, store, runVars, plan, history, viewVars>>

\* ------------------------------------------------------------------------
\* app.py: load_jobs under st.cache_data, and main()
\* ------------------------------------------------------------------------
\* the body of load_jobs: the frame it returns and whether st.error was called.  Every
\* exception is caught: the RuntimeError of get_session, or the AttributeError of
\* job.salary when Job has no such attribute
load_jobs ==
  IF ~configured THEN [error |-> TRUE, df |-> {}]
  ELSE IF store = {} THEN [error |-> FALSE, df |-> {}]
  ELSE IF "salary" \notin job_attrs THEN [error |-> TRUE, df |-> {}]
  ELSE [error |-> FALSE, df |-> store]

\* the ttl of the memo elapses
CacheExpire ==
  /\ cache.valid
  /\ cache' = NoCache
  /\ UNCHANGED <<call, clockVars, configured, job_attrs, store, runVars, plan, history, resp,
                 trainVars>>

\* ------------------------------------------------------------------------
\* app.py: the location filter
\* ------------------------------------------------------------------------
BROAD_LOCATIONS ==
  << <<"u","n","i","t","e","d"," ","s","t","a","t","e","s">>,
     <<"u","s","a">>,
     <<"r","e","m","o","t","e">>,
     <<"n","a","t","i","o","n","w","i","d","e">>,
     <<"a","n","y","w","h","e","r","e">> >>

s_comma_fl == <<","," ","f","l">>

s_florida == <<"f","l","o","r","i","d","a">>

\* the broad terms looked up in the location as written, without lower()
is_broad_location_cased(location) ==
  IF ~Truthy(location) THEN FALSE ELSE AnyIn(BROAD_LOCATIONS, location)

is_broad_location(location) ==
  IF ~Truthy(location) THEN FALSE ELSE AnyIn(BROAD_LOCATIONS, Lower(location))

\* "florida" or ""
get_state_from_location(location) ==
  IF ~Truthy(location) THEN <<>>
  ELSE IF Contains(Lower(location), s_comma_fl) \/ Contains(Lower(location), s_florida) THEN s_florida
  ELSE <<>>

\* the selected location must occur in the row's location: no state rule
location_matches_direct(row_location, selected_locations) ==
  IF isna(row_location) THEN FALSE
  ELSE IF is_broad_location(row_location) THEN TRUE
  ELSE \E sel_loc \in selected_locations : Contains(Lower(Str(row_location)), Lower(sel_loc))

\* location_matches of filter_by_location; the selection is a list whose order does not
\* matter (the loop returns True at the first match), kept as a set
location_matches(row_location, selected_locations) ==
  IF isna(row_location) THEN FALSE
  ELSE IF is_broad_location(row_location) THEN TRUE
  ELSE \E sel_loc \in selected_locations :
         \/ Contains(Lower(Str(row_location)), Lower(sel_loc))
         \/ /\ get_state_from_location(sel_loc) # <<>>
            /\ get_state_from_location(sel_loc) = get_state_from_location(row_location)

\* a row is kept when it matches every selected location
filter_by_location_all(df, selected_locations) ==
  IF selected_locations = {} THEN df
  ELSE {row \in df : \A sel_loc \in selected_locations : location_matches(row.location, {sel_loc})}

filter_by_location(df, selected_locations) ==
  IF selected_locations = {} THEN df
  ELSE {row \in df : location_matches(row.location, selected_locations)}

\* ------------------------------------------------------------------------
\* app.py: render_jobs_page
\* ------------------------------------------------------------------------
\* datetime.date(): the calendar day of a time
date(t) == t \div 3

\* date.today(): the server's local calendar day
today == date(utcnow + utcoffset)

\* lines 524-525
filter_by_level(df, selected_levels) ==
  IF selected_levels = {} THEN df ELSE {row \in df : row.level \in selected_levels}

\* series.str.lower().str.contains(query_lower, na=False) for a query of plain letters
str_contains(value, query_lower) == value # None /\ Contains(Lower(value), query_lower)

\* lines 532-538
filter_by_search(df, search_query) ==
  IF ~Truthy(search_query) THEN df
  ELSE {row \in df : str_contains(row.title, Lower(search_query)) \/ str_contains(row.company, Lower(search_query))}

\* a row is kept when its level or its location is selected
filtered_df_either(df, selection) ==
  filter_by_search(filter_by_level(df, selection.levels) \cup filter_by_location(df, selection.locations),
                   selection.search)

\* lines 520-538: filtered_df
filtered_df(df, selection) ==
  filter_by_search(filter_by_location(filter_by_level(df, selection.levels), selection.locations),
                   selection.search)

\* lines 549-558: the "New Today" metric (created_at is set for every stored row)
new_today(df) == Cardinality({row \in df : date(row.created_at) = today})

\* main(): df = load_jobs() through the memo, then the page.  The jobs page shows the
\* "No jobs in database yet" warning for an empty frame, and the filtered rows otherwise
MainWith(page, selection) ==
  /\ pc = "idle" /\ t_pc = "idle"
  /\ LET r == IF cache.valid THEN [error |-> cache.error, df |-> cache.df] ELSE load_jobs
         shown == IF page = "jobs" THEN filtered_df(r.df, selection) ELSE r.df
     IN  /\ cache' = [valid |-> TRUE, error |-> r.error, df |-> r.df]
         /\ resp' = [op |-> "main", page |-> page, raised |-> FALSE, error |-> r.error,
                     read |-> ~cache.valid, jobs |-> Urls(shown), total_jobs |-> Cardinality(shown),
                     no_jobs_warning |-> (page = "jobs" /\ r.df = {}),
                     filters |-> NoFilters, selection |-> selection,
                     new_today |-> IF page = "jobs" THEN new_today(shown) ELSE 0]
  /\ UNCHANGED <<call, clockVars, configured, job_attrs, store, runVars, plan, history, trainVars>>

\* main() with nothing selected in the sidebar
Main(page) == MainWith(page, NoSelection)

\* ------------------------------------------------------------------------
\* web.py: get_jobs and get_stats
\* ------------------------------------------------------------------------
\* Job.title.ilike('%text%'): case-insensitive containment; NULL never matches
ilike(value, text) == value # None /\ Contains(Lower(value), Lower(text))

\* the filters of get_jobs (lines 69-79)
WebKeeps(j, filters) ==
  /\ Truthy(filters.search) => (ilike(j.title, filters.search) \/ ilike(j.company, filters.search))
  /\ Truthy(filters.level) => j.level = filters.level
  /\ Truthy(filters.location) => ilike(j.location, filters.location)

WebFilters == {NoFilters, [NoFilters EXCEPT !.level = ManagementPlus],
               [NoFilters EXCEPT !.location = l_Remote], [NoFilters EXCEPT !.search = <<"t","r","a","i","n">>]}

\* get_jobs(filters): get_session raises RuntimeError without a database; the dict of a
\* row reads j.salary, an AttributeError when Job has no such attribute
WebGetJobs(filters) ==
  /\ pc = "idle" /\ t_pc = "idle"
  /\ LET rows == {j \in store : WebKeeps(j, filters)}
     IN  resp' = IF ~configured \/ (rows # {} /\ "salary" \notin job_attrs)
                 THEN [NoResp EXCEPT !.op = "get_jobs", !.raised = TRUE]
                 ELSE [NoResp EXCEPT !.op = "get_jobs", !.read = TRUE, !.jobs = Urls(rows),
                                     !.total_jobs = Cardinality(rows), !.filters = filters]
  /\ UNCHANGED <<call, clockVars, configured, job_attrs, store, runVars, plan, history, cache,
                 trainVars>>

\* Job.created_at >= today: midnight of the local day or later
stats_new_today == Cardinality({j \in store : j.created_at >= 3 * today})

\* get_stats(): the counts of the landing page
WebGetStats ==
  /\ pc = "idle" /\ t_pc = "idle"
  /\ resp' = IF ~configured
             THEN [NoResp EXCEPT !.op = "get_stats", !.raised = TRUE]
             ELSE [NoResp EXCEPT !.op = "get_stats", !.read = TRUE, !.total_jobs = Cardinality(store),
                                 !.new_today = stats_new_today]
  /\ UNCHANGED <<call, clockVars, configured, job_attrs, store, runVars, plan, history, cache,
                 trainVars>>

\* the responses are delivered and the memo has expired: nothing of the views is left
Deliver ==
  /\ ~Quiet
  /\ cache' = NoCache /\ resp' = NoResp
  /\ UNCHANGED <<call, clockVars, configured, job_attrs, store, runVars, plan, history, trainVars>>

\* ------------------------------------------------------------------------
\* The views over a filled table
\* ------------------------------------------------------------------------
\* how long the clock runs on
MaxTicks == 2

\* the rows earlier runs stored: a trainer in Orlando, a manager working remotely, a
\* lead in Tampa at another company
ViewRows == {rA, rC, rT}

\* when they were stored: before and after midnight UTC
Stamps == {2, 3}

\* the tables of these rows, each stored at most once
ViewStores ==
  {{JobAt(r, at[r]) : r \in {q \in ViewRows : at[q] # 0}} : at \in [ViewRows -> {0} \cup Stamps]}

\* one level, one location and one search text, each possibly left empty
ViewFilters ==
  [search : {<<>>, <<"t","r","a","i","n">>, <<"G","L","O","B","E","X">>},
   level : {<<>>, ManagementPlus, IndividualContributor},
   location : {<<>>, l_Orlando, l_Tampa, l_Remote}]

\* the sidebar's selection with the same parameters
SelectionOf(filters) ==
  [levels |-> IF filters.level = <<>> THEN {} ELSE {filters.level},
   locations |-> IF filters.location = <<>> THEN {} ELSE {filters.location},
   search |-> filters.search]

\* time passes
Tick ==
  /\ utcnow < 3 + MaxTicks
  /\ utcnow' = utcnow + 1
  /\ UNCHANGED <<call, utcoffset, configured, job_attrs, store, runVars, plan, history, viewVars,
                 trainVars>>

\* one visitor at a time: a page or a request is served when the last response was
\* delivered
VisitHome == resp = NoResp /\ Main("home")

\* the jobs page with one level, one location and one search text chosen in the sidebar
VisitJobs(filters) == resp = NoResp /\ MainWith("jobs", SelectionOf(filters))

RequestJobs(filters) == resp = NoResp /\ WebGetJobs(filters)

RequestStats == resp = NoResp /\ WebGetStats

\* ------------------------------------------------------------------------
\* The classifiers called on their own
\* ------------------------------------------------------------------------
\* the longest title, in parts
MaxParts == 2

\* parts of titles: the keywords of get_level in several cases, whole and cut in two
Parts ==
  { <<"M","a","n","a","g","e","r">>,
    <<"D","I","R","E","C","T","O","R">>,
    <<"V","p">>,
    <<"c","h","i","e","f">>,
    <<"H","e","a">>,
    <<"d">>,
    <<"L","e","a","d">>,
    <<"e","r">>,
    <<"s","h","i","p">>,
    <<" ">>,
    <<"T","r","a","i","n","e","r">>,
    <<"v">>,
    <<"p">> }

RECURSIVE Join(_)
Join(ps) == IF ps = <<>> THEN <<>> ELSE Head(ps) \o Join(Tail(ps))

\* the titles get_level is called with: text (the run passes a title the validator
\* accepted), the empty text and None
Titles == {None} \cup {Join(ps) : ps \in UNION {[1..n -> Parts] : n \in 0..MaxParts}}

\* the call has not returned
Pending == <<"<pending>">>

NoCall == [fn |-> "none", arg |-> None, ret |-> None]

\* lines 122-136: get_level(title) returns
CallGetLevel ==
  /\ call.fn = "get_level" /\ call.ret = Pending
  /\ call' = [call EXCEPT !.ret = get_level(call.arg)]
  /\ UNCHANGED <<clockVars, configured, job_attrs, store, runVars, plan, history, viewVars, trainVars>>

\* parts of the titles the enablement filter is called with: ops/admin and learning
\* keywords in several cases, whole and cut in two
BouncerParts ==
  { <<"D","e","a","l"," ">>,
    <<"D","e","s","k">>,
    <<"d","e","a","l"," ","d","e","s","k">>,
    <<"S","a","l","e","s">>,
    <<"f","o","r","c","e">>,
    <<"Q","U","O","T","A">>,
    <<"R","e","v","O","p","s">>,
    <<"E","n","a","b","l","e","m","e","n","t">>,
    <<" ">>,
    <<"T","r","a","i","n","i","n","g">>,
    <<"C","o","a","c","h">>,
    <<"i","n","g">>,
    <<"C","o","n","t","e","n","t">>,
    <<"M","a","n","a","g","e","r">> }

\* titles of fetched rows: text, the empty text, None and the missing value
BouncerTitles == {None, NaN} \cup {Join(ps) : ps \in UNION {[1..n -> BouncerParts] : n \in 0..MaxParts}}

\* descriptions of fetched rows: absent, missing, empty, with and without a learning keyword
Descriptions ==
  {None, NaN, <<>>} \cup
  { <<"O","n","b","o","a","r","d","i","n","g"," ","p","l","a","n">>,
    <<"O","w","n","s"," ","t","h","e"," ","Q","U","O","T","A">>,
    <<"c","o","n","t","e","n","t">>,
    <<"S","e","l","l","s">> }

\* lines 84-115: is_valid_enablement_role(title, description) returns
CallBouncer ==
  /\ call.fn = "is_valid_enablement_role" /\ call.ret = Pending
  /\ call' = [call EXCEPT !.ret = Bool(is_valid_enablement_role(call.arg[1], call.arg[2]))]
  /\ UNCHANGED <<clockVars, configured, job_attrs, store, runVars, plan, history, viewVars, trainVars>>

\* parts of the titles the L&D validator is called with
ValidatorParts ==
  { <<"T","r","a","i","n","i","n","g">>,
    <<"L","E","A","R","N">>,
    <<"i","n","g">>,
    <<"L","&">>,
    <<"D">>,
    <<" ">>,
    <<"C","o","a","c","h">>,
    <<"S","a","l","e","s">>,
    <<"T","a","l","e","n","t"," ">>,
    <<"D","e","v","e","l","o","p","m","e","n","t">> }

\* the titles row.get('title', '') hands over: text, the empty text, None, and NaN for
\* a row of the fetched frame whose title is missing
ValidatorTitles == {None, NaN} \cup {Join(ps) : ps \in UNION {[1..n -> ValidatorParts] : n \in 0..MaxParts}}

\* lines 40-77: is_valid_ld_role(title) returns or raises
CallValidator ==
  /\ call.fn = "is_valid_ld_role" /\ call.ret = Pending
  /\ LET r == is_valid_ld_role(call.arg)
     IN  call' = [call EXCEPT !.ret = IF r = "AttributeError" THEN AttributeError ELSE Bool(r = "True")]
  /\ UNCHANGED <<clockVars, configured, job_attrs, store, runVars, plan, history, viewVars, trainVars>>

\* min_amount and max_amount of a fetched row: missing, zero, below and above 1000, on
\* and around a half thousand
Amounts == {NoAmount, 0, 25, 999, 1000, 1499, 1500, 1501, 2500, 95000, 120000}

\* interval of a fetched row: absent, missing, empty, and the pay periods
Intervals ==
  {None, NaN, <<>>} \cup
  { <<"y","e","a","r","l","y">>,
    <<"h","o","u","r","l","y">>,
    <<"m","o","n","t","h","l","y">>,
    <<"w","e","e","k","l","y">>,
    <<"Y","E","A","R","L","Y">> }

\* lines 139-185: get_salary(row) returns
CallGetSalary ==
  /\ call.fn = "get_salary" /\ call.ret = Pending
  /\ call' = [call EXCEPT !.ret = get_salary(call.arg)]
  /\ UNCHANGED <<clockVars, configured, job_attrs, store, runVars, plan, history, viewVars, trainVars>>

\* parts of locations: cities, states and the broad terms in several cases, whole and
\* cut in two
LocationParts ==
  { <<"R","e","m","o","t","e">>,
    <<"R","E","M","O","T","E">>,
    <<"O","r","l","a","n","d","o">>,
    <<","," ","F","L">>,
    <<"T","a","m","p","a">>,
    <<"A","u","s","t","i","n">>,
    <<","," ","T","X">>,
    <<"F","l","o","r","i","d","a">>,
    <<"U","S">>,
    <<" ","U","S">>,
    <<"A">>,
    <<"N","a","t","i","o","n">>,
    <<"w","i","d","e">>,
    <<" ">> }

\* the location of a stored row: text, the empty text, or missing (None in the store,
\* NaN in the frame)
RowLocations == {None, NaN} \cup {Join(ps) : ps \in UNION {[1..n -> LocationParts] : n \in 0..MaxParts}}

\* what the location multiselect can hold
Selections ==
  SUBSET { <<"O","r","l","a","n","d","o",","," ","F","L">>,
    <<"T","a","m","p","a",","," ","F","L">>,
    <<"A","u","s","t","i","n">> }

\* lines 258-292: filter_by_location(df, selected_locations) on the frame of one row;
\* returns whether the row is kept
CallFilterByLocation ==
  /\ call.fn = "filter_by_location" /\ call.ret = Pending
  /\ LET df == {[location |-> call.arg.location]}
     IN  call' = [call EXCEPT !.ret = Bool(filter_by_location(df, call.arg.selected) = df)]
  /\ UNCHANGED <<clockVars, configured, job_attrs, store, runVars, plan, history, viewVars, trainVars>>

\* ------------------------------------------------------------------------
\* Properties
\* ------------------------------------------------------------------------
\* the position of a pair in term-major order
PairNumber(e) == (e.term - 1) * NumLocations + e.loc

\* C1: after any sequence of ingestion runs over any fetch results, the committed table
\* never holds two Job rows with the same job_url.
C1_UniqueUrl == \A a, b \in store : a.job_url = b.job_url => a = b

\* a run that met one url twice (a duplicate was skipped in a run that started on an
\* empty table) has committed its rows
C1_Witness ==
  /\ pc = "done" /\ start = {} /\ total_skipped_duplicate > 0
  /\ Cardinality(store) > 1

C5_Category == <<"I","n","s","t","r","u","c","t","i","o","n","a","l"," ","D","e","s","i","g","n">>

C5_Salary == <<"$","8","0","K","+">>

\* C5: a run whose only results are the three postings A, B, C of one pair, with A's url
\* alone already stored, ends with new = 1, duplicate = 1, bouncer = 1 and a row for C
\* with level "Management+", category "Instructional Design" and salary "$80K+".
C5_Scenario ==
  (/\ pc = "done" /\ total_found = Len(dfABC)
   /\ Urls(start) \cap {u1, u2, u3} = {u1})
  => /\ total_new = 1 /\ total_skipped_duplicate = 1 /\ total_skipped_bouncer = 1
     /\ \E r \in store : /\ r.job_url = u3
                         /\ r.level = ManagementPlus
                         /\ r.category = C5_Category
                         /\ r.salary = C5_Salary

\* C7: without a database every operation on the store fails towards its caller: the run
\* does not get past get_session(), and no view hands its caller a result, least of all
\* an empty one shown as "no jobs".
C7_ExplicitFailure ==
  ~configured =>
    /\ pc \in {"idle", "failed"}
    /\ resp.op # "none" => (resp.raised /\ ~resp.no_jobs_warning)

\* C9: no two fetches of a run follow each other without the delay in between, whether
\* the earlier one returned rows, returned nothing or raised.
C9_DelayBetweenFetches ==
  [][/\ (Len(log') > Len(log) /\ log # <<>>) => slept
     /\ (Len(t_log') > Len(t_log) /\ t_log # <<>>) => t_slept]_vars

\* C6: the inserts of a run commit together or not at all: until the commit of line 298
\* has succeeded, and after a run that an error ended, the committed table is the one the
\* run started with; after the commit it holds exactly the run's new rows in addition.
C6_AllOrNothing ==
  /\ pc \in {"fetch", "rows", "sleep", "commit", "failed"} => store = start
  /\ pc \in {"summary", "done"} =>
       start \subseteq store /\ Cardinality(store \ start) = total_new

\* a run that had added rows ended in an error
C6_Witness == pc = "failed" /\ total_new > 0 /\ store = start

\* the row has a url and its title and description pass the validator and the bouncer
C8_Filtered(r) ==
  /\ r.job_url # <<>> /\ r.job_url # None
  /\ is_valid_ld_role(r.title) = "True"
  /\ Contains(Lower(r.title), s_enablement) => is_valid_enablement_role(r.title, r.description)

\* C8: every Job row that enters the table (inserted by a flush, then committed) has a
\* non-empty url, a title that is_valid_ld_role accepts, and, when the title contains
\* "enablement" in any case, passes is_valid_enablement_role; the bouncer counter only
\* moves for a candidate whose title contains "enablement".
C8_PassedAllFilters ==
  [][/\ \A r \in (store' \cup txn') \ (store \cup txn) : C8_Filtered(r)
     /\ total_skipped_bouncer' > total_skipped_bouncer
          => pc = "rows" /\ Contains(Lower(Str(Frame(jobs_df)[idx].title)), s_enablement)]_vars

\* an "enablement" row was committed, and another candidate was bounced
C8_Witness ==
  /\ \E r \in store : Contains(Lower(r.title), s_enablement)
  /\ total_skipped_bouncer > 0

\* the keywords of the levels, as the claim lists them
C10_Words ==
  { <<"m","a","n","a","g","e","r">>,
    <<"d","i","r","e","c","t","o","r">>,
    <<"v","p">>,
    <<"c","h","i","e","f">>,
    <<"h","e","a","d">>,
    <<"l","e","a","d">> }

\* c is the lower-case letter k or its capital
C10_SameLetter(c, k) == c = k \/ \E n \in 1..26 : LowerCase[n] = k /\ UpperCase[n] = c

\* a keyword occurs in T at some position, letter by letter without regard to case
C10_Promoted(T) ==
  /\ T # None
  /\ \E k \in C10_Words : \E i \in 1..Len(T) :
       /\ i + Len(k) - 1 <= Len(T)
       /\ \A j \in 1..Len(k) : C10_SameLetter(T[i + j - 1], k[j])

\* C10: get_level(T) is "Management+" exactly when T, compared without regard to case,
\* contains one of manager, director, vp, chief, head, lead at some position (inside a
\* longer word too), and "Individual Contributor" otherwise, also for "" and None.
C10_LevelIff ==
  (call.fn = "get_level" /\ call.ret # Pending) =>
    call.ret = IF C10_Promoted(call.arg) THEN ManagementPlus ELSE IndividualContributor

\* "Leader", where "lead" is part of a longer word and capitalised, was promoted
C10_Witness ==
  /\ call.fn = "get_level" /\ call.ret = ManagementPlus
  /\ call.arg = <<"L","e","a","d","e","r">>

\* the lower-case letter k, or its capital, is c
SameLetter(c, k) == c = k \/ \E n \in 1..26 : LowerCase[n] = k /\ UpperCase[n] = c

\* the word k occurs in the text T at some position, letter by letter without regard to
\* case; nothing occurs in a value that is not text
OccursIn(k, T) ==
  /\ T \notin {None, NaN}
  /\ \E i \in 1..Len(T) :
       /\ i + Len(k) - 1 <= Len(T)
       /\ \A j \in 1..Len(k) : SameLetter(T[i + j - 1], k[j])

C11_Ops ==
  { <<"d","e","a","l"," ","d","e","s","k">>,
    <<"r","e","v","o","p","s">>,
    <<"r","e","v","e","n","u","e"," ","o","p","e","r","a","t","i","o","n","s">>,
    <<"s","a","l","e","s"," ","o","p","e","r","a","t","i","o","n","s">>,
    <<"c","r","m"," ","a","d","m","i","n">>,
    <<"s","a","l","e","s","f","o","r","c","e">>,
    <<"q","u","o","t","a">>,
    <<"p","i","p","e","l","i","n","e">>,
    <<"f","o","r","e","c","a","s","t","i","n","g">> }

C11_Learning ==
  { <<"t","r","a","i","n","i","n","g">>,
    <<"l","e","a","r","n","i","n","g">>,
    <<"f","a","c","i","l","i","t","a","t","i","o","n">>,
    <<"c","o","a","c","h","i","n","g">>,
    <<"o","n","b","o","a","r","d","i","n","g">>,
    <<"c","u","r","r","i","c","u","l","u","m">>,
    <<"c","o","n","t","e","n","t">>,
    <<"i","n","s","t","r","u","c","t","i","o","n","a","l">>,
    <<"d","e","v","e","l","o","p","m","e","n","t">> }

\* C11: is_valid_enablement_role(title, description) is true exactly when the title,
\* lower-cased, contains no ops/admin keyword and a learning keyword occurs in the
\* lower-cased title or in the lower-cased description; so an ops/admin keyword in the
\* title gives false for every description, and an absent or empty description never
\* yields a match.
C11_BouncerIff ==
  (call.fn = "is_valid_enablement_role" /\ call.ret # Pending) =>
    LET title == call.arg[1]
        description == call.arg[2]
    IN  call.ret = Bool(/\ \A k \in C11_Ops : ~OccursIn(k, title)
                        /\ \E k \in C11_Learning : OccursIn(k, title) \/ OccursIn(k, description))

\* "Deal Desk Enablement" with a description about onboarding was rejected
C11_Witness ==
  /\ call.fn = "is_valid_enablement_role" /\ call.ret = False
  /\ \E k \in C11_Ops : OccursIn(k, call.arg[1])
  /\ \E k \in C11_Learning : OccursIn(k, call.arg[2])

C12_Keywords ==
  { <<"t","r","a","i","n","i","n","g">>,
    <<"t","r","a","i","n","e","r">>,
    <<"l","e","a","r","n","i","n","g">>,
    <<"l","&","d">>,
    <<"i","n","s","t","r","u","c","t","i","o","n","a","l">>,
    <<"c","u","r","r","i","c","u","l","u","m">>,
    <<"e","l","e","a","r","n","i","n","g">>,
    <<"e","-","l","e","a","r","n","i","n","g">>,
    <<"c","o","u","r","s","e","w","a","r","e">>,
    <<"e","n","a","b","l","e","m","e","n","t">>,
    <<"t","a","l","e","n","t"," ","d","e","v","e","l","o","p","m","e","n","t">>,
    <<"o","r","g","a","n","i","z","a","t","i","o","n","a","l"," ","d","e","v","e","l","o","p","m","e","n","t">>,
    <<"p","r","o","f","e","s","s","i","o","n","a","l"," ","d","e","v","e","l","o","p","m","e","n","t">>,
    <<"l","e","a","d","e","r","s","h","i","p"," ","d","e","v","e","l","o","p","m","e","n","t">>,
    <<"e","m","p","l","o","y","e","e"," ","d","e","v","e","l","o","p","m","e","n","t">>,
    <<"f","a","c","i","l","i","t","a","t","o","r">>,
    <<"f","a","c","i","l","i","t","a","t","i","o","n">>,
    <<"c","o","a","c","h">>,
    <<"c","o","a","c","h","i","n","g">>,
    <<"o","n","b","o","a","r","d","i","n","g">>,
    <<"l","m","s">>,
    <<"l","e","a","r","n","i","n","g"," ","m","a","n","a","g","e","m","e","n","t">>,
    <<"c","o","r","p","o","r","a","t","e"," ","e","d","u","c","a","t","i","o","n">>,
    <<"e","d","u","c","a","t","i","o","n"," ","m","a","n","a","g","e","r">>,
    <<"e","d","u","c","a","t","i","o","n"," ","d","i","r","e","c","t","o","r">> }

\* C12: is_valid_ld_role is total over every title a fetched row can carry: it never
\* raises, returns false for an empty or absent title, and otherwise returns true exactly
\* when a keyword of the L&D list occurs in the lower-cased title.
C12_Total ==
  (call.fn = "is_valid_ld_role" /\ call.ret # Pending) =>
    /\ call.ret \in {True, False}
    /\ call.ret = Bool(\E k \in C12_Keywords : OccursIn(k, call.arg))

\* the texts for an amount: "$" and the amount below 1000, "$", a nearest whole number of
\* thousands and "K" from 1000 on
C13_Texts(amt) ==
  IF amt < 1000 THEN {<<"$">> \o DecimalOf(amt)}
  ELSE {<<"$">> \o DecimalOf(n) \o <<"K">> :
          n \in {k \in (amt \div 1000)..(amt \div 1000 + 1) :
                   \A j \in (amt \div 1000)..(amt \div 1000 + 1) :
                      (IF amt >= 1000 * k THEN amt - 1000 * k ELSE 1000 * k - amt)
                        <= (IF amt >= 1000 * j THEN amt - 1000 * j ELSE 1000 * j - amt)}}

C13_Suffix(interval) ==
  IF OccursIn(<<"y","e","a","r">>, interval) THEN <<"/","y","r">>
  ELSE IF OccursIn(<<"h","o","u","r">>, interval) THEN <<"/","h","r">>
  ELSE IF OccursIn(<<"m","o","n","t","h">>, interval) THEN <<"/","m","o">>
  ELSE <<>>

\* C13: get_salary returns None exactly when minimum and maximum are both absent;
\* otherwise each amount is written "$<amount/1000 rounded>K" from 1000 on and
\* "$<amount rounded>" below, as "<min> - <max>", "<min>+" or "Up to <max>", followed by
\* /yr, /hr or /mo when the interval contains year, hour or month; (95000, 120000,
\* "yearly") gives "$95K - $120K/yr".
C13_Salary ==
  (call.fn = "get_salary" /\ call.ret # Pending) =>
    LET lo == call.arg.min_amount
        hi == call.arg.max_amount
        suffix == C13_Suffix(call.arg.interval)
    IN  /\ call.ret = None <=> (lo = NoAmount /\ hi = NoAmount)
        /\ (lo # NoAmount /\ hi # NoAmount) =>
              call.ret \in {a \o <<" ","-"," ">> \o b \o suffix : a \in C13_Texts(lo), b \in C13_Texts(hi)}
        /\ (lo # NoAmount /\ hi = NoAmount) =>
              call.ret \in {a \o <<"+">> \o suffix : a \in C13_Texts(lo)}
        /\ (lo = NoAmount /\ hi # NoAmount) =>
              call.ret \in {<<"U","p"," ","t","o"," ">> \o b \o suffix : b \in C13_Texts(hi)}

\* the example of the claim was formatted
C13_Witness ==
  /\ call.fn = "get_salary"
  /\ call.arg = [min_amount |-> 95000, max_amount |-> 120000, interval |-> <<"y","e","a","r","l","y">>]
  /\ call.ret = <<"$","9","5","K"," ","-"," ","$","1","2","0","K","/","y","r">>

\* the letters c and d are equal up to case
SameLetterAnyCase(c, d) ==
  c = d \/ \E n \in 1..26 : {c, d} = {LowerCase[n], UpperCase[n]}

\* the text s occurs in the text L without regard to case; nothing occurs in a missing L
C14_Within(s, L) ==
  /\ L \notin {None, NaN}
  /\ \E i \in 1..(Len(L) + 1) :
       /\ i + Len(s) - 1 <= Len(L)
       /\ \A j \in 1..Len(s) : SameLetterAnyCase(L[i + j - 1], s[j])

C14_Broad ==
  { <<"u","n","i","t","e","d"," ","s","t","a","t","e","s">>,
    <<"u","s","a">>,
    <<"r","e","m","o","t","e">>,
    <<"n","a","t","i","o","n","w","i","d","e">>,
    <<"a","n","y","w","h","e","r","e">> }

\* the region tag of a location: florida or none
C14_Florida(x) == C14_Within(<<","," ","f","l">>, x) \/ C14_Within(<<"f","l","o","r","i","d","a">>, x)

C14_Kept(L, S) ==
  \/ S = {}
  \/ \E b \in C14_Broad : C14_Within(b, L)
  \/ \E s \in S : C14_Within(s, L) \/ (C14_Florida(s) /\ C14_Florida(L))

\* C14: filter_by_location keeps a posting with location L under the selection S exactly
\* when S is empty, or L contains a broad marker, or for some s in S the lower-cased s
\* occurs in the lower-cased L or s and L both carry the florida tag; "Remote" under []
\* and "Orlando, FL" under ["Tampa, FL"] are kept, "Austin, TX" under ["Orlando, FL"] is
\* not.
C14_LocationFilter ==
  (call.fn = "filter_by_location" /\ call.ret # Pending) =>
    /\ call.ret = Bool(C14_Kept(call.arg.location, call.arg.selected))
    /\ (call.arg.location = <<"R","e","m","o","t","e">> /\ call.arg.selected = {}) => call.ret = True
    /\ (call.arg.location = <<"O","r","l","a","n","d","o",","," ","F","L">> /\ call.arg.selected = {<<"T","a","m","p","a",","," ","F","L">>})
          => call.ret = True
    /\ (call.arg.location = <<"A","u","s","t","i","n",","," ","T","X">> /\ call.arg.selected = {<<"O","r","l","a","n","d","o",","," ","F","L">>})
          => call.ret = False

\* "Orlando, FL" was kept under ["Tampa, FL"]
C14_Witness ==
  /\ call.fn = "filter_by_location" /\ call.ret = True
  /\ call.arg.location = <<"O","r","l","a","n","d","o",","," ","F","L">>
  /\ call.arg.selected = {<<"T","a","m","p","a",","," ","F","L">>}

\* C15: a posting whose location contains, without regard to case, one of "united
\* states", "usa", "remote", "nationwide", "anywhere" is kept by filter_by_location for
\* every selection.
C15_BroadAlwaysKept ==
  (/\ call.fn = "filter_by_location" /\ call.ret # Pending
   /\ \E b \in C14_Broad : OccursIn(b, call.arg.location))
     => call.ret = True

\* "REMOTE US" was kept under a selection of cities it does not name
C15_Witness ==
  /\ call.fn = "filter_by_location" /\ call.ret = True
  /\ call.arg.location = <<"R","E","M","O","T","E"," ","U","S">>
  /\ call.arg.selected = {<<"A","u","s","t","i","n">>, <<"T","a","m","p","a",","," ","F","L">>}

\* C16: the Flask front end and the dashboard apply the same filters: on the same table
\* and with the same parameters (one level, one location, one search text) get_jobs
\* returns exactly the rows that the dashboard's level, location and search filters keep.
C16_SameRows ==
  (resp.op = "get_jobs" /\ ~resp.raised) =>
     resp.jobs = Urls(filtered_df(store, SelectionOf(resp.filters)))

\* the predicates of the dashboard's three filters; an empty filter is satisfied by every row
C17_Level(r, selection) == selection.levels = {} \/ r.level \in selection.levels

C17_Location(r, selection) == C14_Kept(r.location, selection.locations)

C17_Search(r, selection) ==
  \/ selection.search = <<>>
  \/ C14_Within(selection.search, r.title) \/ C14_Within(selection.search, r.company)

\* the predicates of get_jobs
C17_WebKeeps(r, filters) ==
  /\ filters.search = <<>> \/ C14_Within(filters.search, r.title) \/ C14_Within(filters.search, r.company)
  /\ filters.level = <<>> \/ r.level = filters.level
  /\ filters.location = <<>> \/ C14_Within(filters.location, r.location)

\* one of the dashboard's filters, by number
C17_Filter(n, df, selection) ==
  IF n = 1 THEN filter_by_level(df, selection.levels)
  ELSE IF n = 2 THEN filter_by_location(df, selection.locations)
  ELSE filter_by_search(df, selection.search)

\* C17: the level, location and free-text filters of the view are independent predicates
\* combined with AND: applied in any order they give the same rows, those that satisfy
\* every active predicate, and a filter left empty removes nothing.
C17_FiltersAnded ==
  /\ (resp.op = "main" /\ resp.page = "jobs" /\ ~resp.error) =>
       /\ resp.jobs = Urls({r \in store : /\ C17_Level(r, resp.selection)
                                          /\ C17_Location(r, resp.selection)
                                          /\ C17_Search(r, resp.selection)})
       /\ \A p \in {q \in [1..3 -> 1..3] : {q[1], q[2], q[3]} = 1..3} :
            Urls(C17_Filter(p[3], C17_Filter(p[2], C17_Filter(p[1], store, resp.selection),
                                             resp.selection), resp.selection)) = resp.jobs
       /\ \A n \in 1..3 : C17_Filter(n, store, NoSelection) = store
  /\ (resp.op = "get_jobs" /\ ~resp.raised) =>
       resp.jobs = Urls({r \in store : C17_WebKeeps(r, resp.filters)})

\* with a level, a location and a search text set, the jobs page showed one row of three
C17_Witness ==
  /\ resp.op = "main" /\ resp.page = "jobs"
  /\ resp.selection = [levels |-> {ManagementPlus}, locations |-> {l_Orlando}, search |-> <<"G","L","O","B","E","X">>]
  /\ Urls(store) = {u1, u2, u3}
  /\ resp.jobs = {u2}

\* C18: the "new today" count is the number of records of the view whose created_at
\* falls on the current calendar date; a record of an earlier or a later date is never
\* counted, neither by the dashboard's metric nor by get_stats of the Flask front end.
C18_NewToday ==
  [][/\ (resp' # resp /\ resp'.op = "main" /\ resp'.page = "jobs") =>
          resp'.new_today = Cardinality({r \in store : r.job_url \in resp'.jobs /\ date(r.created_at) = today})
     /\ (resp' # resp /\ resp'.op = "get_stats" /\ ~resp'.raised) =>
          resp'.new_today = Cardinality({r \in store : date(r.created_at) = today})]_vars

C20_Counters == <<total_new, total_skipped_duplicate, total_skipped_not_ld, total_skipped_bouncer>>

C20_Sum(c) == c[1] + c[2] + c[3] + c[4]

\* C20: each fetched candidate changes at most one of the four outcome counters, so the
\* total fetched is always at least new + duplicate + invalid + bouncer; at the end of a
\* run in which no candidate's processing raised, the total fetched is that sum plus the
\* number of candidates with an empty url.
C20_CountersAddUp ==
  [][/\ pc = "rows" =>
          /\ Cardinality({n \in 1..4 : C20_Counters'[n] # C20_Counters[n]}) <= 1
          /\ \A n \in 1..4 : C20_Counters'[n] \in {C20_Counters[n], C20_Counters[n] + 1}
     /\ total_found' >= C20_Sum(C20_Counters')
     /\ (pc' \in {"commit", "summary", "done"} /\ ~row_raised') =>
          total_found' = C20_Sum(C20_Counters') + no_url']_vars

\* a run ended without an exception in the row loop, with a candidate without url and
\* candidates counted as skipped
C20_Witness ==
  /\ pc = "done" /\ ~row_raised
  /\ no_url > 0 /\ total_skipped_bouncer > 0 /\ total_skipped_not_ld > 0 /\ total_new > 0

\* C21: when a run reports its counters, the new counter is the number of rows in the
\* table after the run minus the number before it: no candidate is counted whose record
\* was not durably inserted.
C21_NewIsStoreDelta ==
  pc = "done" =>
    /\ start \subseteq store
    /\ total_new = Cardinality(store) - Cardinality(start)
    /\ total_new = Cardinality(store \ start)

\* a run on a filled table reported two new rows
C21_Witness ==
  /\ pc = "done" /\ start # {} /\ total_new = 2
  /\ Cardinality(store) = Cardinality(start) + 2

\* C22: a failed read of the store is not memoized: the memo of load_jobs only ever
\* holds the snapshot of a successful read, and a call of load_jobs that follows a
\* failed one within the ttl reads the store again instead of returning the empty
\* frame of the failure.
C22_FailureNotMemoized ==
  [][/\ cache'.valid => ~cache'.error
     /\ (resp' # resp /\ resp'.op = "main" /\ resp.op = "main" /\ resp.error) => resp'.read]_vars

\* C23: filter_by_location is monotone in a non-empty selection: a posting kept under S
\* is kept under every selection that contains S; and the postings kept under S are those
\* kept under {s} for some s in S.
C23_Monotone ==
  (call.fn = "filter_by_location" /\ call.ret # Pending /\ call.arg.selected # {}) =>
    LET df == {[location |-> call.arg.location]}
    IN  /\ call.ret = True =>
             \A S \in Selections : call.arg.selected \subseteq S => filter_by_location(df, S) = df
        /\ call.ret = Bool(\E s \in call.arg.selected : filter_by_location(df, {s}) = df)

\* "Austin, TX" was kept under ["Austin"], a selection with larger ones
C23_Witness ==
  /\ call.fn = "filter_by_location" /\ call.ret = True
  /\ call.arg.location = <<"A","u","s","t","i","n",","," ","T","X">>
  /\ call.arg.selected = {<<"A","u","s","t","i","n">>}

\* C3: in one run every (term, location) pair gets exactly one call of scrape_jobs, in
\* term-major order; a failure while fetching or processing a pair neither ends the run
\* nor repeats the pair, and every later pair is still attempted.  The same holds for
\* scrape_all_jobs.
C3_EveryPairOnce ==
  /\ \A i \in 1..Len(log) : PairNumber(log[i]) = i
  /\ (pc \in {"commit", "summary", "done"} \/ (pc = "failed" /\ configured))
        => Len(log) = NumPairs
  /\ \A i \in 1..Len(t_log) : PairNumber(t_log[i]) = i
  /\ t_pc = "done" => Len(t_log) = NumPairs

\* all pairs were attempted although the flush of an earlier pair failed and the last
\* pair failed too
C3_Witness ==
  /\ pc = "commit" /\ sess = "inactive"
  /\ Len(log) = NumPairs /\ ~slept

\* ------------------------------------------------------------------------
\* Specifications
\* ------------------------------------------------------------------------
\* no run, no view and no collection is under way
InitIdle ==
  /\ sess = "none" /\ txn = {} /\ pending = <<>>
  /\ pc = "idle" /\ ti = 1 /\ li = 1 /\ jobs_df = "empty" /\ idx = 0
  /\ current_search = 0 /\ total_found = 0 /\ total_new = 0
  /\ total_skipped_duplicate = 0 /\ total_skipped_not_ld = 0 /\ total_skipped_bouncer = 0
  /\ log = <<>> /\ slept = FALSE /\ start = {} /\ no_url = 0 /\ row_raised = FALSE
  /\ history = <<>>
  /\ cache = NoCache /\ resp = NoResp
  /\ t_pc = "idle" /\ t_ti = 1 /\ t_li = 1 /\ t_log = <<>> /\ t_slept = FALSE /\ all_jobs = <<>>

\* the first day has passed, the server runs on UTC, the table is empty
InitCommon ==
  /\ configured \in BOOLEAN
  /\ job_attrs \in {JobColumns, JobColumns \cup {"salary"}}
  /\ store = {}
  /\ utcnow = 3 /\ utcoffset = 0
  /\ InitIdle

Init == InitCommon /\ plan = <<>> /\ call = NoCall

InitRerun == InitCommon /\ plan \in Plans /\ call = NoCall

InitTagging ==
  /\ InitCommon /\ plan = <<>>
  /\ call \in {[fn |-> "get_level", arg |-> t, ret |-> Pending] : t \in Titles}

Next ==
  \/ StartRun \/ Fetch \/ ProcessRow \/ Sleep \/ Commit \/ Summary \/ Exit
  \/ TStart \/ TFetch \/ TSleep \/ TReturn
  \/ \E page \in {"home", "jobs"} : Main(page)
  \/ CacheExpire
  \/ \E filters \in WebFilters : WebGetJobs(filters)
  \/ WebGetStats
  \/ Deliver

Spec == Init /\ [][Next]_vars

SpecRerun == InitRerun /\ [][Next]_vars

InitLongTitle == InitCommon /\ plan \in LongTitlePlans /\ call = NoCall

SpecLongTitle == InitLongTitle /\ [][Next]_vars

NextTagging == CallGetLevel

InitBouncer ==
  /\ InitCommon /\ plan = <<>>
  /\ call \in {[fn |-> "is_valid_enablement_role", arg |-> <<t, d>>, ret |-> Pending] :
                 t \in BouncerTitles, d \in Descriptions}

NextBouncer == CallBouncer

InitValidator ==
  /\ InitCommon /\ plan = <<>>
  /\ call \in {[fn |-> "is_valid_ld_role", arg |-> t, ret |-> Pending] : t \in ValidatorTitles}

NextValidator == CallValidator

InitSalary ==
  /\ InitCommon /\ plan = <<>>
  /\ call \in {[fn |-> "get_salary", arg |-> [min_amount |-> lo, max_amount |-> hi, interval |-> i],
                ret |-> Pending] : lo \in Amounts, hi \in Amounts, i \in Intervals}

NextSalary == CallGetSalary

InitLocation ==
  /\ InitCommon /\ plan = <<>>
  /\ call \in {[fn |-> "filter_by_location", arg |-> [location |-> l, selected |-> s], ret |-> Pending] :
                 l \in RowLocations, s \in Selections}

NextLocation == CallFilterByLocation

\* a table filled by earlier runs (Job has the salary attribute, or nothing was ever
\* stored); the server runs on UTC or behind it
InitViews ==
  /\ configured = TRUE
  /\ \/ job_attrs = JobColumns /\ store = {}
     \/ job_attrs = JobColumns \cup {"salary"} /\ store \in ViewStores
  /\ utcnow = 3 /\ utcoffset \in {0, 0 - 1}
  /\ InitIdle
  /\ plan = <<>> /\ call = NoCall

NextViews ==
  \/ VisitHome
  \/ \E filters \in ViewFilters : VisitJobs(filters)
  \/ CacheExpire
  \/ \E filters \in ViewFilters : RequestJobs(filters)
  \/ RequestStats
  \/ Deliver
  \/ Tick

SpecViews == InitViews /\ [][NextViews]_vars

SpecLocation == InitLocation /\ [][NextLocation]_vars

SpecSalary == InitSalary /\ [][NextSalary]_vars

SpecValidator == InitValidator /\ [][NextValidator]_vars

SpecBouncer == InitBouncer /\ [][NextBouncer]_vars

SpecTagging == InitTagging /\ [][NextTagging]_vars

====
